---- MODULE Spec2Model ----
(***************************************************************************)
(* State machine of contracts/EtCloudFhe.sol: the encrypted-record         *)
(* lifecycle (upload, reconstruction request, oracle callback, result      *)
(* read) together with the decryption-request bookkeeping that the         *)
(* contract inherits from the FHE library it calls.  A second part models  *)
(* the web client (frontend/web/src/App.tsx): browser sessions that keep   *)
(* their image list in a key-value store through getData / setData.        *)
(***************************************************************************)
EXTENDS Integers, Sequences, FiniteSets, TLC

(* ------------------------------ bounds --------------------------------- *)
MaxImages == 2
MaxRequests == 3
MaxCompleted == 2
MaxTime == 2
MaxDateNow == 2
MaxRandom == 2
MaxRunning == 2
MaxUploads == 2
MaxCalls == 4

(* ------------------------------ inputs --------------------------------- *)
Users == {"A", "B"}
ZeroAddress == "0x0"
\* ciphertext handles (euint32): NoHandle is the zero handle, Handles the
\* ciphertexts a caller may pass to uploadEncryptedImage
NoHandle == 0
Handles == {11, 12}
\* uint32 cleartexts an oracle callback may carry
Cleartexts == {1, 2}
\* proofs a callback may carry: a KMS signature set or something else
Proofs == {"kms", "forged"}

\* keys of the uint256-indexed mappings the bounded runs can touch
Ids == 0 .. (MaxImages + MaxRequests)
ImageIdInputs == 0 .. MaxImages
RequestIdInputs == 0 .. MaxRequests

(* --------------------------- result statuses --------------------------- *)
Ok == "ok"
NotAuthorized == "Not image owner"
AlreadyProcessed == "Image already processed"
NotReady == "Reconstruction not completed"
UnknownRequest == "NoHandleFoundForRequestID"
InvalidProof == "InvalidKMSSignatures"
AlreadyRequested == "AlreadyRequested"

(* --------------------------- web client inputs ------------------------- *)
\* browser sessions (tabs) running App.tsx
Sessions == {"s1", "s2"}
\* useState("") of account: no wallet connected
NoAccount == ""
\* accounts[0] || "": what a wallet can answer to eth_requestAccounts
WalletAccounts == {"A", NoAccount}
\* Date.now() is read in ticks, DateNows are the readings a call can get;
\* TicksPerSecond of them make one second of Math.floor(Date.now() / 1000)
DateNows == 1 .. MaxDateNow
TicksPerSecond == 2
\* image ids the client generates: `${Date.now()}-${random}`, one id for
\* each pair of a clock reading and a value of Math.random()
Randoms == 1 .. MaxRandom
MakeImageId(now, random) == (now - 1) * MaxRandom + random
WebIds == 1 .. MaxDateNow * MaxRandom
\* keys of the store: "et_image_keys" and `et_image_${imageId}`
KeysKey == 0
ImageKey(imageId) == imageId
\* bytes of length 0: what getData returns for a key never set
EmptyBytes == << >>
\* JSON.stringify / ethers.toUtf8Bytes and their inverses JSON.parse /
\* ethers.toUtf8String: a value is stored as text, the text as bytes
JSONstringify(v) == [json |-> v]
toUtf8Bytes(str) == <<str>>
toUtf8String(bytes) == bytes[1]
JSONparse(str) == str.json
\* slots for the async calls that are in flight
Slots == 1 .. MaxRunning

(* ------------------------------- state --------------------------------- *)
VARIABLES
    imageCount,             \* uint256 public imageCount
    encryptedImages,        \* mapping(uint256 => EncryptedImage)
    reconstructionResults,  \* mapping(uint256 => ReconstructionResult)
    userImages,             \* mapping(address => uint256[])
    counterRequest,         \* FHE library: next decryption request id
    requestedHandles,       \* FHE library: request id -> handles handed to the oracle
    reqImage,               \* history: request id -> imageId whose call obtained it
    events,                 \* emitted events, in emission order
    now,                    \* block.timestamp
    ret                     \* the last external call: its function, its revert
                            \* reason (or Ok) and the value it returned

VARIABLES
    data,                   \* key-value store behind contract.getData / setData
    provider,               \* per session: useState provider is set (not null)
    account,                \* per session: useState account ("" until a wallet answers)
    registered,             \* per session: an accountsChanged handler is registered
    images,                 \* per session: useState images, the list last loaded
    uploading,              \* per session: useState uploading (submit button disabled)
    isRefreshing,           \* per session: useState isRefreshing (refresh button disabled)
    loading,                \* per session: useState loading (loading screen shown)
    tasks,                  \* the async calls in flight: session, await reached, locals
    uploads,                \* number of uploadImage calls made so far
    calls,                  \* number of clicks and wallet events so far
    succeeded               \* history: image ids whose uploadImage reported success

flags == <<uploading, isRefreshing, loading>>
web == <<data, provider, account, registered, images, flags, tasks, uploads, calls,
        succeeded>>

store == <<imageCount, encryptedImages, reconstructionResults, userImages>>
oracle == <<counterRequest, requestedHandles, reqImage>>
state == <<store, oracle, events>>
vars == <<state, now, ret>>
allvars == <<vars, web>>

NoImage == [id |-> 0, owner |-> ZeroAddress, encryptedData |-> NoHandle,
            timestamp |-> 0, isProcessed |-> FALSE]
NoResult == [imageId |-> 0, encryptedResult |-> NoHandle, timestamp |-> 0]

\* function called, its uint256 argument, revert reason or Ok, returned value
Ret(op, id, status, value) == [op |-> op, id |-> id, status |-> status, value |-> value]

\* an empty slot, and the locals of a call that has set none of them
NoImageData == [owner |-> NoAccount, timestamp |-> 0, status |-> "none"]
NoTask == [s |-> "", fn |-> "", at |-> "none", imageId |-> 0, owner |-> NoAccount,
           keys |-> << >>, imageData |-> NoImageData, list |-> << >>]
\* the calls in flight once the sessions are mounted: useEffect has called
\* loadImages in each of them
MountTasks ==
    [k \in Slots |-> IF k = 1 THEN [NoTask EXCEPT !.s = "s1", !.fn = "mount", !.at = "load_keys"]
                    ELSE IF k = 2 THEN [NoTask EXCEPT !.s = "s2", !.fn = "mount", !.at = "load_keys"]
                    ELSE NoTask]

Init ==
    /\ imageCount = 0
    /\ encryptedImages = [i \in Ids |-> NoImage]
    /\ reconstructionResults = [i \in Ids |-> NoResult]
    /\ userImages = [u \in Users |-> <<>>]
    /\ counterRequest = 0
    /\ requestedHandles = [r \in Ids |-> <<>>]
    /\ reqImage = [r \in Ids |-> 0]
    /\ events = <<>>
    /\ now = 1
    /\ ret = Ret("constructor", 0, Ok, 0)
    /\ data = [k \in {KeysKey} \cup {ImageKey(i) : i \in WebIds} |-> EmptyBytes]
    /\ provider = [s \in Sessions |-> FALSE]
    /\ account = [s \in Sessions |-> NoAccount]
    /\ registered = [s \in Sessions |-> FALSE]
    /\ images = [s \in Sessions |-> << >>]
    /\ uploading = [s \in Sessions |-> FALSE]
    /\ isRefreshing = [s \in Sessions |-> TRUE]
    /\ loading = [s \in Sessions |-> TRUE]
    /\ tasks = MountTasks
    /\ uploads = 0
    /\ calls = 0
    /\ succeeded = {}

(* ------------------------- FHE library boundary ------------------------ *)
(* The contract calls FHE.requestDecryption, FHE.checkSignatures,          *)
(* FHE.toBytes32 and FHE.asEuint32 of the imported library.  Their effect  *)
(* on the contract is modelled here: request ids are taken from a counter  *)
(* of the library that starts at 0 and is independent of imageCount, the   *)
(* handles of a request are saved under its id, a callback is rejected     *)
(* when no handles are saved for its id or when the proof does not verify, *)
(* and an accepted callback does not release the saved handles.            *)
\* FHE.toBytes32: the bytes32 form of a handle (tagged, so that it is not the handle itself)
toBytes32(h) == [bytes32 |-> h]
\* the value the KMS decrypts a handle to; the contract never computes it
Decrypt(h) == h - 10
\* FHE.asEuint32: trivial encryption, a fresh handle wrapping a cleartext
asEuint32(c) == 100 + c
\* FHE.verifySignatures: the KMS signs only the true decryption of the handles
verifySignatures(handlesList, cleartexts, proof) ==
    /\ proof = "kms"
    /\ \E h \in Handles : handlesList = <<toBytes32(h)>> /\ cleartexts = Decrypt(h)
\* FHE.checkSignatures: revert reason, or Ok
checkSignatures(requestId, cleartexts, proof) ==
    IF requestedHandles[requestId] = <<>> THEN UnknownRequest
    ELSE IF ~verifySignatures(requestedHandles[requestId], cleartexts, proof) THEN InvalidProof
    ELSE Ok

(* ------------------------------ operations ----------------------------- *)
\* variant of uploadEncryptedImage: the new record starts with isProcessed set
uploadEncryptedImage_ProcessedAtCreation(sender, encryptedData) ==
    /\ imageCount < MaxImages
    /\ LET newId == imageCount + 1 IN
         /\ imageCount' = newId
         /\ encryptedImages' = [encryptedImages EXCEPT ![newId] =
                [id |-> newId, owner |-> sender, encryptedData |-> encryptedData,
                 timestamp |-> now, isProcessed |-> TRUE]]
         /\ userImages' = [userImages EXCEPT ![sender] = Append(@, newId)]
         /\ events' = Append(events, [type |-> "ImageUploaded", id |-> newId,
                                      owner |-> sender, timestamp |-> now])
         /\ ret' = Ret("upload", 0, Ok, 0)
    /\ UNCHANGED <<reconstructionResults, oracle, now>>

\* variant of uploadEncryptedImage: the id is read before the counter is incremented
uploadEncryptedImage_IdBeforeIncrement(sender, encryptedData) ==
    /\ imageCount < MaxImages
    /\ LET newId == imageCount IN
         /\ imageCount' = imageCount + 1
         /\ encryptedImages' = [encryptedImages EXCEPT ![newId] =
                [id |-> newId, owner |-> sender, encryptedData |-> encryptedData,
                 timestamp |-> now, isProcessed |-> FALSE]]
         /\ userImages' = [userImages EXCEPT ![sender] = Append(@, newId)]
         /\ events' = Append(events, [type |-> "ImageUploaded", id |-> newId,
                                      owner |-> sender, timestamp |-> now])
         /\ ret' = Ret("upload", 0, Ok, 0)
    /\ UNCHANGED <<reconstructionResults, oracle, now>>

\* variant of uploadEncryptedImage: the push onto userImages[msg.sender] is missing
uploadEncryptedImage_NoPush(sender, encryptedData) ==
    /\ imageCount < MaxImages
    /\ LET newId == imageCount + 1 IN
         /\ imageCount' = newId
         /\ encryptedImages' = [encryptedImages EXCEPT ![newId] =
                [id |-> newId, owner |-> sender, encryptedData |-> encryptedData,
                 timestamp |-> now, isProcessed |-> FALSE]]
         /\ events' = Append(events, [type |-> "ImageUploaded", id |-> newId,
                                      owner |-> sender, timestamp |-> now])
         /\ ret' = Ret("upload", 0, Ok, 0)
    /\ UNCHANGED <<userImages, reconstructionResults, oracle, now>>

uploadEncryptedImage(sender, encryptedData) ==
    /\ imageCount < MaxImages
    /\ LET newId == imageCount + 1 IN
         /\ imageCount' = newId
         /\ encryptedImages' = [encryptedImages EXCEPT ![newId] =
                [id |-> newId, owner |-> sender, encryptedData |-> encryptedData,
                 timestamp |-> now, isProcessed |-> FALSE]]
         /\ userImages' = [userImages EXCEPT ![sender] = Append(@, newId)]
         /\ events' = Append(events, [type |-> "ImageUploaded", id |-> newId,
                                      owner |-> sender, timestamp |-> now])
         /\ ret' = Ret("upload", 0, Ok, 0)
    /\ UNCHANGED <<reconstructionResults, oracle, now>>

\* modifier onlyImageOwner
onlyImageOwner(imageId, sender) == encryptedImages[imageId].owner = sender

\* FHE.requestDecryption: takes the next request id, hands the handles to the
\* oracle and saves them under that id
requestDecryption(ciphertexts, imageId) ==
    /\ counterRequest < MaxRequests
    /\ requestedHandles' = [requestedHandles EXCEPT ![counterRequest] = ciphertexts]
    /\ reqImage' = [reqImage EXCEPT ![counterRequest] = imageId]
    /\ counterRequest' = counterRequest + 1

\* variant of requestReconstruction: the onlyImageOwner modifier is missing
requestReconstruction_NoOwnerCheck(sender, imageId) ==
    /\ IF encryptedImages[imageId].isProcessed
       THEN ret' = Ret("request", imageId, AlreadyProcessed, 0) /\ UNCHANGED state
       ELSE /\ requestDecryption(<<toBytes32(encryptedImages[imageId].encryptedData)>>, imageId)
            /\ events' = Append(events, [type |-> "ReconstructionRequested", id |-> imageId,
                                         owner |-> ZeroAddress, timestamp |-> 0])
            /\ ret' = Ret("request", imageId, Ok, 0)
            /\ UNCHANGED store
    /\ UNCHANGED now

\* variant of requestReconstruction: the isProcessed requirement is missing
requestReconstruction_NoProcessedCheck(sender, imageId) ==
    /\ IF ~onlyImageOwner(imageId, sender)
       THEN ret' = Ret("request", imageId, NotAuthorized, 0) /\ UNCHANGED state
       ELSE /\ requestDecryption(<<toBytes32(encryptedImages[imageId].encryptedData)>>, imageId)
            /\ events' = Append(events, [type |-> "ReconstructionRequested", id |-> imageId,
                                         owner |-> ZeroAddress, timestamp |-> 0])
            /\ ret' = Ret("request", imageId, Ok, 0)
            /\ UNCHANGED store
    /\ UNCHANGED now

\* variant of requestReconstruction: the payload of the newest record is
\* forwarded instead of the payload of record imageId
requestReconstruction_ForwardsLatest(sender, imageId) ==
    /\ IF ~onlyImageOwner(imageId, sender)
       THEN ret' = Ret("request", imageId, NotAuthorized, 0) /\ UNCHANGED state
       ELSE IF encryptedImages[imageId].isProcessed
       THEN ret' = Ret("request", imageId, AlreadyProcessed, 0) /\ UNCHANGED state
       ELSE /\ requestDecryption(<<toBytes32(encryptedImages[imageCount].encryptedData)>>, imageId)
            /\ events' = Append(events, [type |-> "ReconstructionRequested", id |-> imageId,
                                         owner |-> ZeroAddress, timestamp |-> 0])
            /\ ret' = Ret("request", imageId, Ok, 0)
            /\ UNCHANGED store
    /\ UNCHANGED now

requestReconstruction(sender, imageId) ==
    /\ IF ~onlyImageOwner(imageId, sender)
       THEN ret' = Ret("request", imageId, NotAuthorized, 0) /\ UNCHANGED state
       ELSE IF encryptedImages[imageId].isProcessed
       THEN ret' = Ret("request", imageId, AlreadyProcessed, 0) /\ UNCHANGED state
       ELSE /\ requestDecryption(<<toBytes32(encryptedImages[imageId].encryptedData)>>, imageId)
            /\ events' = Append(events, [type |-> "ReconstructionRequested", id |-> imageId,
                                         owner |-> ZeroAddress, timestamp |-> 0])
            /\ ret' = Ret("request", imageId, Ok, 0)
            /\ UNCHANGED store
    /\ UNCHANGED now

\* number of ReconstructionCompleted events emitted so far
Completions == Cardinality({k \in 1 .. Len(events) : events[k].type = "ReconstructionCompleted"})

\* variant of processReconstruction: the FHE.checkSignatures call is missing
processReconstruction_NoCheck(requestId, cleartexts, proof) ==
    /\ Completions < MaxCompleted
    /\ reconstructionResults' = [reconstructionResults EXCEPT ![requestId] =
           [imageId |-> requestId, encryptedResult |-> asEuint32(cleartexts),
            timestamp |-> now]]
    /\ encryptedImages' = [encryptedImages EXCEPT ![requestId].isProcessed = TRUE]
    /\ events' = Append(events, [type |-> "ReconstructionCompleted", id |-> requestId,
                                 owner |-> ZeroAddress, timestamp |-> now])
    /\ ret' = Ret("callback", requestId, Ok, 0)
    /\ UNCHANGED <<imageCount, userImages, oracle, now>>

\* variant of processReconstruction: the result is written before the
\* signatures are checked, and a failed check does not undo the write
processReconstruction_WriteBeforeCheck(requestId, cleartexts, proof) ==
    /\ LET verdict == checkSignatures(requestId, cleartexts, proof) IN
       IF verdict # Ok
       THEN /\ reconstructionResults' = [reconstructionResults EXCEPT ![requestId] =
                   [imageId |-> requestId, encryptedResult |-> asEuint32(cleartexts),
                    timestamp |-> now]]
            /\ ret' = Ret("callback", requestId, verdict, 0)
            /\ UNCHANGED <<imageCount, encryptedImages, userImages, oracle, events>>
       ELSE /\ Completions < MaxCompleted
            /\ reconstructionResults' = [reconstructionResults EXCEPT ![requestId] =
                   [imageId |-> requestId, encryptedResult |-> asEuint32(cleartexts),
                    timestamp |-> now]]
            /\ encryptedImages' = [encryptedImages EXCEPT ![requestId].isProcessed = TRUE]
            /\ events' = Append(events, [type |-> "ReconstructionCompleted", id |-> requestId,
                                         owner |-> ZeroAddress, timestamp |-> now])
            /\ ret' = Ret("callback", requestId, Ok, 0)
            /\ UNCHANGED <<imageCount, userImages, oracle>>
    /\ UNCHANGED now

processReconstruction(requestId, cleartexts, proof) ==
    /\ LET verdict == checkSignatures(requestId, cleartexts, proof) IN
       IF verdict # Ok
       THEN ret' = Ret("callback", requestId, verdict, 0) /\ UNCHANGED state
       ELSE /\ Completions < MaxCompleted
            /\ reconstructionResults' = [reconstructionResults EXCEPT ![requestId] =
                   [imageId |-> requestId, encryptedResult |-> asEuint32(cleartexts),
                    timestamp |-> now]]
            /\ encryptedImages' = [encryptedImages EXCEPT ![requestId].isProcessed = TRUE]
            /\ events' = Append(events, [type |-> "ReconstructionCompleted", id |-> requestId,
                                         owner |-> ZeroAddress, timestamp |-> now])
            /\ ret' = Ret("callback", requestId, Ok, 0)
            /\ UNCHANGED <<imageCount, userImages, oracle>>
    /\ UNCHANGED now

\* variant of getReconstructionResult: the isProcessed requirement is missing
getReconstructionResult_NoReadyCheck(sender, imageId) ==
    /\ ret' = IF ~onlyImageOwner(imageId, sender) THEN Ret("read", imageId, NotAuthorized, 0)
              ELSE Ret("read", imageId, Ok, reconstructionResults[imageId].encryptedResult)
    /\ UNCHANGED <<state, now>>

getReconstructionResult(sender, imageId) ==
    /\ ret' = IF ~onlyImageOwner(imageId, sender) THEN Ret("read", imageId, NotAuthorized, 0)
              ELSE IF ~encryptedImages[imageId].isProcessed THEN Ret("read", imageId, NotReady, 0)
              ELSE Ret("read", imageId, Ok, reconstructionResults[imageId].encryptedResult)
    /\ UNCHANGED <<state, now>>

\* view getUserImageIds
getUserImageIds(user) == userImages[user]

\* view getImageMetadata
getImageMetadata(imageId) ==
    [owner |-> encryptedImages[imageId].owner,
     timestamp |-> encryptedImages[imageId].timestamp,
     isProcessed |-> encryptedImages[imageId].isProcessed]

\* a later block: block.timestamp advances
Tick ==
    /\ now < MaxTime
    /\ now' = now + 1
    /\ UNCHANGED <<state, ret, web>>

Upload ==
    /\ \E u \in Users, h \in Handles : uploadEncryptedImage(u, h)
    /\ UNCHANGED web
Request ==
    /\ \E u \in Users, i \in ImageIdInputs : requestReconstruction(u, i)
    /\ UNCHANGED web
Callback ==
    /\ \E r \in RequestIdInputs, c \in Cleartexts, p \in Proofs :
          processReconstruction(r, c, p)
    /\ UNCHANGED web
Read ==
    /\ \E u \in Users, i \in ImageIdInputs : getReconstructionResult(u, i)
    /\ UNCHANGED web

Next == Upload \/ Request \/ Callback \/ Read \/ Tick

Spec == Init /\ [][Next]_allvars

(* ------------------------------ web client ----------------------------- *)
(* App.tsx keeps its data in a key-value store reached through             *)
(* contract.getData(key) and contract.setData(key, bytes): the list of     *)
(* image ids under "et_image_keys" and one JSON document per image under   *)
(* `et_image_${imageId}`.  A handler runs up to its next await and the     *)
(* rest of it is a call in flight (a task); any number of calls of one or  *)
(* of several sessions can be in flight, up to MaxRunning.  A step is a    *)
(* click, a getData that returns, a setData that reaches the store or is   *)
(* rejected, or a wallet event.  The notification banner                   *)
(* (transactionStatus and its timers) is not part of the state; the one    *)
(* report the model keeps is the success report of uploadImage.            *)
\* contract.getData(key): the bytes stored under key
getData(key) == data[key]
\* contract.setData(key, bytes): the store after the write
setData(key, bytes) == [data EXCEPT ![key] = bytes]

\* the keys parsed from the bytes of "et_image_keys" (empty when never set)
ParseKeys(keysBytes) ==
    IF Len(keysBytes) > 0 THEN JSONparse(toUtf8String(keysBytes)) ELSE << >>

\* list.sort((a, b) => b.timestamp - a.timestamp): newest first, elements of
\* equal timestamp keep their order (the sort is stable)
RECURSIVE InsertByTimestamp(_, _)
InsertByTimestamp(e, list) ==
    IF list = << >> THEN <<e>>
    ELSE IF e.timestamp >= Head(list).timestamp THEN <<e>> \o list
    ELSE <<Head(list)>> \o InsertByTimestamp(e, Tail(list))
RECURSIVE SortByTimestamp(_)
SortByTimestamp(list) ==
    IF list = << >> THEN << >>
    ELSE InsertByTimestamp(Head(list), SortByTimestamp(Tail(list)))

\* isOwner(address) of session s
isOwner(s, address) == account[s] = address

\* a call goes in flight in the first empty slot
FreeSlots == {k \in Slots : tasks[k] = NoTask}
StartTask(task) ==
    /\ FreeSlots # {}
    /\ LET k == CHOOSE f \in FreeSlots : \A g \in FreeSlots : f <= g
       IN tasks' = [tasks EXCEPT ![k] = task]

\* a click or a wallet event: one more of the MaxCalls the run allows
UserEvent ==
    /\ calls < MaxCalls
    /\ calls' = calls + 1

\* onWalletSelect up to its await: the provider is set and
\* eth_requestAccounts is sent
onWalletSelect(s) ==
    /\ UserEvent
    /\ ~loading[s]
    /\ provider' = [provider EXCEPT ![s] = TRUE]
    /\ StartTask([NoTask EXCEPT !.s = s, !.fn = "connect", !.at = "connect"])
    /\ UNCHANGED <<data, account, registered, images, uploads, succeeded, flags>>

\* onWalletSelect after its await: the wallet answers with its accounts, the
\* first one (or "") becomes the account and the accountsChanged handler is
\* registered; or the request fails and only the alert is shown
onWalletSelectAccounts(k, answered, acc) ==
    /\ tasks[k].at = "connect"
    /\ IF answered
       THEN /\ account' = [account EXCEPT ![tasks[k].s] = acc]
            /\ registered' = [registered EXCEPT ![tasks[k].s] = TRUE]
       ELSE UNCHANGED <<account, registered>>
    /\ tasks' = [tasks EXCEPT ![k] = NoTask]
    /\ UNCHANGED <<data, provider, images, uploads, calls, succeeded, flags>>

\* the accountsChanged handler registered by onWalletSelect
accountsChanged(s, acc) ==
    /\ UserEvent
    /\ registered[s]
    /\ account' = [account EXCEPT ![s] = acc]
    /\ UNCHANGED <<data, provider, registered, images, tasks, uploads, succeeded, flags>>

\* onDisconnect
onDisconnect(s) ==
    /\ UserEvent
    /\ ~loading[s]
    /\ account' = [account EXCEPT ![s] = NoAccount]
    /\ provider' = [provider EXCEPT ![s] = FALSE]
    /\ UNCHANGED <<data, registered, images, tasks, uploads, succeeded, flags>>

\* loadImages is called by the refresh button (disabled while refreshing)
loadImages(s) ==
    /\ UserEvent
    /\ ~loading[s]
    /\ ~isRefreshing[s]
    /\ isRefreshing' = [isRefreshing EXCEPT ![s] = TRUE]
    /\ StartTask([NoTask EXCEPT !.s = s, !.fn = "load", !.at = "load_keys"])
    /\ UNCHANGED <<data, provider, account, registered, images, uploads, succeeded, uploading, loading>>

\* what loadImages leaves behind when it ends: setIsRefreshing(false), and
\* the uploadImage that called it ends with setUploading(false)
loadImagesFinally(k) ==
    /\ isRefreshing' = [isRefreshing EXCEPT ![tasks[k].s] = FALSE]
    /\ loading' = [loading EXCEPT ![tasks[k].s] = FALSE]
    /\ uploading' = IF tasks[k].fn = "upload"
                    THEN [uploading EXCEPT ![tasks[k].s] = FALSE]
                    ELSE uploading
    /\ tasks' = [tasks EXCEPT ![k] = NoTask]

\* loadImages: isAvailable() answers and getData("et_image_keys") returns;
\* when the contract is not available the call returns through its finally
loadImagesKeys(k, isAvailable) ==
    /\ tasks[k].at = "load_keys"
    /\ IF isAvailable
       THEN /\ tasks' = [tasks EXCEPT ![k].at = "load_loop",
                                      ![k].keys = ParseKeys(getData(KeysKey)),
                                      ![k].list = << >>]
            /\ UNCHANGED flags
       ELSE loadImagesFinally(k)
    /\ UNCHANGED <<data, provider, account, registered, images, uploads, calls, succeeded>>

\* loadImages, one pass of the loop over the keys (one getData returns), and
\* after the last key the sort, setImages and setIsRefreshing(false); an
\* uploadImage that called it then ends with setUploading(false)
loadImagesLoop(k) ==
    /\ tasks[k].at = "load_loop"
    /\ IF tasks[k].keys = << >>
       THEN /\ images' = [images EXCEPT ![tasks[k].s] = SortByTimestamp(tasks[k].list)]
            /\ loadImagesFinally(k)
       ELSE LET key == Head(tasks[k].keys)
                imageBytes == getData(ImageKey(key))
                imageData == JSONparse(toUtf8String(imageBytes))
            IN /\ tasks' = [tasks EXCEPT ![k].keys = Tail(@),
                                         ![k].list =
                                            IF Len(imageBytes) > 0
                                            THEN Append(@, [id |-> key,
                                                            timestamp |-> imageData.timestamp,
                                                            owner |-> imageData.owner,
                                                            status |-> imageData.status])
                                            ELSE @]
               /\ UNCHANGED <<images, flags>>
    /\ UNCHANGED <<data, provider, account, registered, uploads, calls, succeeded>>

\* uploadImage is called (the form is submitted; the button is disabled while
\* uploading): it returns at once without a provider, else it sets uploading
\* and goes on with the account the session shows
uploadImage(s) ==
    /\ UserEvent
    /\ ~loading[s]
    /\ ~uploading[s]
    /\ provider[s]
    /\ uploads < MaxUploads
    /\ uploads' = uploads + 1
    /\ uploading' = [uploading EXCEPT ![s] = TRUE]
    /\ StartTask([NoTask EXCEPT !.s = s, !.fn = "upload", !.at = "upload_doc",
                                !.owner = account[s]])
    /\ UNCHANGED <<data, provider, account, registered, images, succeeded,
                   isRefreshing, loading>>

\* uploadImage: the id is made from a reading of Date.now() and a value of
\* Math.random(), the timestamp from a second reading of Date.now(), and
\* the first setData reaches the store; or the write is rejected and the
\* call ends in its catch and finally
uploadImageSetData(k, dateNow, random, dateNow2, accepted) ==
    /\ tasks[k].at = "upload_doc"
    /\ IF accepted
       THEN LET imageId == MakeImageId(dateNow, random)
                imageData == [owner |-> tasks[k].owner,
                              timestamp |-> dateNow2 \div TicksPerSecond,
                              status |-> "uploaded"]
            IN /\ data' = setData(ImageKey(imageId), toUtf8Bytes(JSONstringify(imageData)))
               /\ tasks' = [tasks EXCEPT ![k].at = "upload_keys", ![k].imageId = imageId]
               /\ UNCHANGED uploading
       ELSE /\ tasks' = [tasks EXCEPT ![k] = NoTask]
            /\ uploading' = [uploading EXCEPT ![tasks[k].s] = FALSE]
            /\ UNCHANGED data
    /\ UNCHANGED <<provider, account, registered, images, uploads, calls, succeeded,
                   isRefreshing, loading>>

\* uploadImage: getData("et_image_keys") returns
uploadImageGetKeys(k) ==
    /\ tasks[k].at = "upload_keys"
    /\ tasks' = [tasks EXCEPT ![k].at = "upload_push",
                              ![k].keys = ParseKeys(getData(KeysKey))]
    /\ UNCHANGED <<data, provider, account, registered, images, uploads, calls, succeeded, flags>>

\* uploadImage: keys.push(imageId) and the write of "et_image_keys" reaches
\* the store; or the write is rejected and the call ends in its catch and
\* finally
uploadImageSetKeys(k, accepted) ==
    /\ tasks[k].at = "upload_push"
    /\ IF accepted
       THEN /\ data' = setData(KeysKey, toUtf8Bytes(JSONstringify(
                           Append(tasks[k].keys, tasks[k].imageId))))
            /\ tasks' = [tasks EXCEPT ![k].at = "upload_done", ![k].keys = << >>]
            /\ UNCHANGED uploading
       ELSE /\ tasks' = [tasks EXCEPT ![k] = NoTask]
            /\ uploading' = [uploading EXCEPT ![tasks[k].s] = FALSE]
            /\ UNCHANGED data
    /\ UNCHANGED <<provider, account, registered, images, uploads, calls, succeeded,
                   isRefreshing, loading>>

\* uploadImage after its last setData: success is reported and loadImages
\* is called
uploadImageDone(k) ==
    /\ tasks[k].at = "upload_done"
    /\ succeeded' = succeeded \cup {tasks[k].imageId}
    /\ isRefreshing' = [isRefreshing EXCEPT ![tasks[k].s] = TRUE]
    /\ tasks' = [tasks EXCEPT ![k] = [NoTask EXCEPT !.s = tasks[k].s, !.fn = "upload",
                                                    !.at = "load_keys"]]
    /\ UNCHANGED <<data, provider, account, registered, images, uploads, calls, uploading, loading>>

\* the button of the image card that is rendered for image imageId in
\* session s: shown to the owner while the listed status is `status`
ButtonShown(s, imageId, status) ==
    \E n \in 1 .. Len(images[s]) :
       /\ images[s][n].id = imageId
       /\ isOwner(s, images[s][n].owner)
       /\ images[s][n].status = status

\* getData of the image document returns in processImage or
\* completeReconstruction: "Image not found" ends the call, else the
\* document is kept for the write at `next`
ReadImage(k, next) ==
    LET imageBytes == getData(ImageKey(tasks[k].imageId)) IN
    tasks' = [tasks EXCEPT ![k] =
                 IF Len(imageBytes) = 0 THEN NoTask
                 ELSE [@ EXCEPT !.at = next,
                                !.imageData = JSONparse(toUtf8String(imageBytes))]]

\* the document with its status replaced reaches the store, the call still
\* at its await; or the write is rejected and the call ends in its catch
WriteStatus(k, status, accepted, next) ==
    IF accepted
    THEN /\ data' = setData(ImageKey(tasks[k].imageId),
                            toUtf8Bytes(JSONstringify([tasks[k].imageData EXCEPT !.status = status])))
         /\ tasks' = [tasks EXCEPT ![k].at = next]
    ELSE /\ tasks' = [tasks EXCEPT ![k] = NoTask]
         /\ UNCHANGED data

\* the await of setData returns: success is reported and loadImages is called
CallLoadImages(k) ==
    /\ isRefreshing' = [isRefreshing EXCEPT ![tasks[k].s] = TRUE]
    /\ tasks' = [tasks EXCEPT ![k] = [NoTask EXCEPT !.s = tasks[k].s, !.fn = tasks[k].fn,
                                                    !.at = "load_keys"]]

\* processImage is called from the "Start FHE Processing" button
processImage(s, imageId) ==
    /\ UserEvent
    /\ ~loading[s]
    /\ ButtonShown(s, imageId, "uploaded")
    /\ provider[s]
    /\ StartTask([NoTask EXCEPT !.s = s, !.fn = "process", !.at = "process_get",
                                !.imageId = imageId])
    /\ UNCHANGED <<data, provider, account, registered, images, uploads, succeeded, flags>>

\* processImage: getData of the image document returns
processImageGet(k) ==
    /\ tasks[k].at = "process_get"
    /\ ReadImage(k, "process_set")
    /\ UNCHANGED <<data, provider, account, registered, images, uploads, calls, succeeded, flags>>

\* processImage: the document is written back with status "processing"
processImageSet(k, accepted) ==
    /\ tasks[k].at = "process_set"
    /\ WriteStatus(k, "processing", accepted, "process_done")
    /\ UNCHANGED <<provider, account, registered, images, uploads, calls, succeeded, flags>>

\* processImage after its setData: loadImages is called
processImageDone(k) ==
    /\ tasks[k].at = "process_done"
    /\ CallLoadImages(k)
    /\ UNCHANGED <<data, provider, account, registered, images, uploads, calls, succeeded,
                   uploading, loading>>

\* completeReconstruction is called from the "Complete Reconstruction" button
completeReconstruction(s, imageId) ==
    /\ UserEvent
    /\ ~loading[s]
    /\ ButtonShown(s, imageId, "processing")
    /\ provider[s]
    /\ StartTask([NoTask EXCEPT !.s = s, !.fn = "complete", !.at = "complete_get",
                                !.imageId = imageId])
    /\ UNCHANGED <<data, provider, account, registered, images, uploads, succeeded, flags>>

\* completeReconstruction: getData of the image document returns
completeReconstructionGet(k) ==
    /\ tasks[k].at = "complete_get"
    /\ ReadImage(k, "complete_set")
    /\ UNCHANGED <<data, provider, account, registered, images, uploads, calls, succeeded, flags>>

\* completeReconstruction: the document is written back with status
\* "reconstructed"
completeReconstructionSet(k, accepted) ==
    /\ tasks[k].at = "complete_set"
    /\ WriteStatus(k, "reconstructed", accepted, "complete_done")
    /\ UNCHANGED <<provider, account, registered, images, uploads, calls, succeeded, flags>>

\* completeReconstruction after its setData: loadImages is called
completeReconstructionDone(k) ==
    /\ tasks[k].at = "complete_done"
    /\ CallLoadImages(k)
    /\ UNCHANGED <<data, provider, account, registered, images, uploads, calls, succeeded,
                   uploading, loading>>

WalletSelect ==
    /\ \E s \in Sessions : onWalletSelect(s)
    /\ UNCHANGED vars
WalletSelectAccounts ==
    /\ \E k \in Slots, answered \in BOOLEAN, acc \in WalletAccounts :
          onWalletSelectAccounts(k, answered, acc)
    /\ UNCHANGED vars
AccountsChanged ==
    /\ \E s \in Sessions, acc \in WalletAccounts : accountsChanged(s, acc)
    /\ UNCHANGED vars
Disconnect ==
    /\ \E s \in Sessions : onDisconnect(s)
    /\ UNCHANGED vars
LoadImages ==
    /\ \E s \in Sessions : loadImages(s)
    /\ UNCHANGED vars
LoadImagesKeys ==
    /\ \E k \in Slots, isAvailable \in BOOLEAN : loadImagesKeys(k, isAvailable)
    /\ UNCHANGED vars
LoadImagesLoop ==
    /\ \E k \in Slots : loadImagesLoop(k)
    /\ UNCHANGED vars
UploadImage ==
    /\ \E s \in Sessions : uploadImage(s)
    /\ UNCHANGED vars
UploadImageSetData ==
    /\ \E k \in Slots, dateNow \in DateNows, random \in Randoms, accepted \in BOOLEAN :
          \E dateNow2 \in {t \in DateNows : t >= dateNow} :
             uploadImageSetData(k, dateNow, random, dateNow2, accepted)
    /\ UNCHANGED vars
UploadImageGetKeys ==
    /\ \E k \in Slots : uploadImageGetKeys(k)
    /\ UNCHANGED vars
UploadImageSetKeys ==
    /\ \E k \in Slots, accepted \in BOOLEAN : uploadImageSetKeys(k, accepted)
    /\ UNCHANGED vars
UploadImageDone ==
    /\ \E k \in Slots : uploadImageDone(k)
    /\ UNCHANGED vars
ProcessImage ==
    /\ \E s \in Sessions, i \in WebIds : processImage(s, i)
    /\ UNCHANGED vars
ProcessImageGet ==
    /\ \E k \in Slots : processImageGet(k)
    /\ UNCHANGED vars
ProcessImageSet ==
    /\ \E k \in Slots, accepted \in BOOLEAN : processImageSet(k, accepted)
    /\ UNCHANGED vars
ProcessImageDone ==
    /\ \E k \in Slots : processImageDone(k)
    /\ UNCHANGED vars
CompleteReconstruction ==
    /\ \E s \in Sessions, i \in WebIds : completeReconstruction(s, i)
    /\ UNCHANGED vars
CompleteReconstructionGet ==
    /\ \E k \in Slots : completeReconstructionGet(k)
    /\ UNCHANGED vars
CompleteReconstructionSet ==
    /\ \E k \in Slots, accepted \in BOOLEAN : completeReconstructionSet(k, accepted)
    /\ UNCHANGED vars
CompleteReconstructionDone ==
    /\ \E k \in Slots : completeReconstructionDone(k)
    /\ UNCHANGED vars

\* a store in which account "A" has uploaded one image, as uploadImage leaves
\* it: the document under its id and the id in "et_image_keys"
InitUploaded ==
    /\ imageCount = 0
    /\ encryptedImages = [i \in Ids |-> NoImage]
    /\ reconstructionResults = [i \in Ids |-> NoResult]
    /\ userImages = [u \in Users |-> <<>>]
    /\ counterRequest = 0
    /\ requestedHandles = [r \in Ids |-> <<>>]
    /\ reqImage = [r \in Ids |-> 0]
    /\ events = <<>>
    /\ now = 1
    /\ ret = Ret("constructor", 0, Ok, 0)
    /\ data = [k \in {KeysKey} \cup {ImageKey(i) : i \in WebIds} |->
                 IF k = KeysKey THEN toUtf8Bytes(JSONstringify(<<1>>))
                 ELSE IF k = ImageKey(1)
                 THEN toUtf8Bytes(JSONstringify([owner |-> "A",
                                                 timestamp |-> 1 \div TicksPerSecond,
                                                 status |-> "uploaded"]))
                 ELSE EmptyBytes]
    /\ provider = [s \in Sessions |-> FALSE]
    /\ account = [s \in Sessions |-> NoAccount]
    /\ registered = [s \in Sessions |-> FALSE]
    /\ images = [s \in Sessions |-> << >>]
    /\ uploading = [s \in Sessions |-> FALSE]
    /\ isRefreshing = [s \in Sessions |-> TRUE]
    /\ loading = [s \in Sessions |-> TRUE]
    /\ tasks = MountTasks
    /\ uploads = 1
    /\ calls = 0
    /\ succeeded = {1}

\* the web client: wallet events, time, and every handler with its steps
WebNext ==
    \/ WalletSelect \/ WalletSelectAccounts \/ AccountsChanged \/ Disconnect
    \/ LoadImages \/ LoadImagesKeys \/ LoadImagesLoop
    \/ UploadImage \/ UploadImageSetData \/ UploadImageGetKeys
    \/ UploadImageSetKeys \/ UploadImageDone
    \/ ProcessImage \/ ProcessImageGet \/ ProcessImageSet \/ ProcessImageDone
    \/ CompleteReconstruction \/ CompleteReconstructionGet
    \/ CompleteReconstructionSet \/ CompleteReconstructionDone

\* from a store in which one image has been uploaded
WebSpec == InitUploaded /\ [][WebNext]_allvars

\* from the empty store
WebUploadSpec == Init /\ [][WebNext]_allvars

\* the status stored for image i ("none" while nothing is stored)
StoredStatus(i) ==
    IF Len(getData(ImageKey(i))) > 0
    THEN JSONparse(toUtf8String(getData(ImageKey(i)))).status ELSE "none"
\* the image ids stored under "et_image_keys"
StoredKeys == ParseKeys(getData(KeysKey))

(* ------------------------- derived record states ----------------------- *)
\* a Record exists for id i
Exists(i) == i >= 1 /\ i <= imageCount
\* a ReconstructionResult is stored under key i
HasResult(i) == reconstructionResults[i] # NoResult
\* correlation ids handed out so far
Issued == {r \in Ids : r < counterRequest}
\* requests made for record i whose callback has not been accepted yet
InFlight(i) == {r \in Issued : reqImage[r] = i /\ ~HasResult(r)}
Completed(i) == encryptedImages[i].isProcessed
RequestSent(i) == ~Completed(i) /\ \E r \in Issued : reqImage[r] = i
Created(i) == ~Completed(i) /\ ~RequestSent(i)

(* -------------------------------- C1 ----------------------------------- *)
\* C1: a verified callback for a correlation id completes exactly the record
\* whose request produced that id: that record becomes processed and gets the
\* result, and no other record's flag or result changes in the callback.
C1_CallbackCompletesBoundRecord ==
    [][\A c \in Cleartexts, p \in Proofs :
         LET r == ret'.id IN
         (ret'.op = "callback" /\ ret'.status = Ok /\ processReconstruction(r, c, p)) =>
            /\ encryptedImages'[reqImage[r]].isProcessed
            /\ \A i \in Ids :
                  (\/ encryptedImages'[i] # encryptedImages[i]
                   \/ reconstructionResults'[i] # reconstructionResults[i])
                  => i = reqImage[r]]_vars

(* -------------------------------- C2 ----------------------------------- *)
\* C2: in every reachable state at most one request is in flight per record
\* (a second requestTransform before the callback is refused).
C2_AtMostOneInFlight ==
    \A i \in Ids : Exists(i) => Cardinality(InFlight(i)) <= 1

(* -------------------------------- C3 ----------------------------------- *)
\* C3: for every record and every caller X other than its owner,
\* requestReconstruction and getReconstructionResult by X fail with
\* NotAuthorized and leave records, results, owner index, in-flight requests
\* and event log unchanged; an upload by X leaves that record and its result
\* as they were.
C3_NonOwnerRejected ==
    [][\A u \in Users :
         /\ \A i \in {ret'.id} :
              (Exists(i) /\ encryptedImages[i].owner # u) =>
                 /\ (ret'.op = "request" /\ requestReconstruction(u, i)) =>
                       (ret'.status = NotAuthorized /\ UNCHANGED state)
                 /\ (ret'.op = "read" /\ getReconstructionResult(u, i)) =>
                       (/\ ret'.status = NotAuthorized
                        /\ ret'.value = NoHandle
                        /\ UNCHANGED state)
         /\ (ret'.op = "upload" /\ \E h \in Handles : uploadEncryptedImage(u, h)) =>
               \A i \in Ids :
                  (Exists(i) /\ encryptedImages[i].owner # u) =>
                     /\ encryptedImages'[i] = encryptedImages[i]
                     /\ reconstructionResults'[i] = reconstructionResults[i]]_vars

\* a read of a completed record was refused as unauthorised, so the caller was
\* not its owner
C3_Witness ==
    /\ ret.op = "read"
    /\ ret.status = NotAuthorized
    /\ Exists(ret.id)
    /\ Completed(ret.id)
    /\ HasResult(ret.id)

(* -------------------------------- C4 ----------------------------------- *)
\* C4: a callback whose correlation id was never issued fails with
\* UnknownRequest and changes nothing (no flag, no result, no event), whatever
\* cleartext and proof it carries.
C4_UnknownRequestRejected ==
    [][\A c \in Cleartexts, p \in Proofs :
         (ret'.op = "callback" /\ ret'.id \notin Issued
            /\ processReconstruction(ret'.id, c, p)) =>
            (ret'.status = UnknownRequest /\ UNCHANGED state)]_vars

\* a callback for an id beyond the issued ones was refused while other requests
\* were in flight
C4_Witness ==
    /\ ret.op = "callback"
    /\ ret.status = UnknownRequest
    /\ ret.id \notin Issued
    /\ Issued # {}

(* -------------------------------- C5 ----------------------------------- *)
\* C5: a callback for an issued correlation id with a proof that does not
\* verify fails with InvalidProof and changes nothing, and the next callback
\* for the same correlation id with a valid proof succeeds and completes the
\* record the request was made for.
C5_RetryAfterInvalidProof ==
    [][\A c \in Cleartexts, p \in Proofs :
         LET r == ret'.id IN
         (ret'.op = "callback" /\ r \in Issued /\ processReconstruction(r, c, p)) =>
            /\ ~verifySignatures(requestedHandles[r], c, p) =>
                  (ret'.status = InvalidProof /\ UNCHANGED state)
            /\ (verifySignatures(requestedHandles[r], c, p)
                  /\ ret = Ret("callback", r, InvalidProof, 0)) =>
                  (ret'.status = Ok /\ encryptedImages'[reqImage[r]].isProcessed)]_vars

(* -------------------------------- C6 ----------------------------------- *)
\* C6: for every id, a ReconstructionResult is stored under the id iff the
\* record with that id has isProcessed set.
C6_ResultIffProcessed ==
    \A i \in Ids : HasResult(i) <=> encryptedImages[i].isProcessed

(* -------------------------------- C7 ----------------------------------- *)
\* C7: a record's isProcessed flag is false when the record is created and,
\* once true, is true in every later state.
C7_ProcessedNeverReverts ==
    [][\A i \in Ids :
         /\ (~Exists(i) /\ Exists(i)') => ~encryptedImages'[i].isProcessed
         /\ (Exists(i) /\ encryptedImages[i].isProcessed) => encryptedImages'[i].isProcessed]_vars

\* a record was completed and a later state-changing operation has run
C7_Witness ==
    \E k \in 1 .. Len(events) :
       /\ events[k].type = "ReconstructionCompleted"
       /\ Exists(events[k].id)
       /\ Completed(events[k].id)
       /\ k < Len(events)

(* -------------------------------- C8 ----------------------------------- *)
\* C8: a stored ReconstructionResult is never changed or removed, and a
\* further completion attempt on its id fails with AlreadyProcessed.
C8_ResultWrittenOnce ==
    [][/\ \A i \in Ids :
            HasResult(i) => reconstructionResults'[i] = reconstructionResults[i]
       /\ \A c \in Cleartexts, p \in Proofs :
            (ret'.op = "callback" /\ HasResult(ret'.id)
               /\ processReconstruction(ret'.id, c, p)) =>
               ret'.status = AlreadyProcessed]_vars

(* -------------------------------- C9 ----------------------------------- *)
\* C9: a request by the owner on a completed record fails with
\* AlreadyProcessed and issues no correlation id, hands nothing to the oracle
\* and emits no event.
C9_CompletedIsTerminal ==
    [][\A u \in Users :
         LET i == ret'.id IN
         (ret'.op = "request" /\ Exists(i) /\ encryptedImages[i].owner = u
            /\ Completed(i) /\ requestReconstruction(u, i)) =>
            (ret'.status = AlreadyProcessed /\ UNCHANGED state)]_vars

\* the owner's request on a completed record was refused
C9_Witness ==
    /\ ret.op = "request"
    /\ ret.status = AlreadyProcessed
    /\ Exists(ret.id)
    /\ Completed(ret.id)

(* -------------------------------- C10 ---------------------------------- *)
\* C10: a read by the owner fails with NotReady while the record is not
\* completed and otherwise returns the stored result; the stored result of a
\* completed record is the handle wrapping the cleartext that the verified
\* callback which completed it delivered.
C10_ReadStep ==
    /\ \A u \in Users :
          LET i == ret'.id IN
          (ret'.op = "read" /\ Exists(i) /\ encryptedImages[i].owner = u
             /\ getReconstructionResult(u, i)) =>
             IF Completed(i)
             THEN ret'.status = Ok /\ ret'.value = reconstructionResults[i].encryptedResult
             ELSE ret'.status = NotReady /\ ret'.value = NoHandle
    /\ \A c \in Cleartexts, p \in Proofs :
          LET r == ret'.id IN
          (ret'.op = "callback" /\ ret'.status = Ok /\ processReconstruction(r, c, p)) =>
             /\ encryptedImages'[r].isProcessed
             /\ reconstructionResults'[r].encryptedResult = asEuint32(c)
    /\ \A i \in Ids :
          (Exists(i) /\ Completed(i)
             /\ reconstructionResults'[i].encryptedResult # reconstructionResults[i].encryptedResult)
          => ret' = Ret("callback", i, Ok, 0)
C10_ReadResult ==
    /\ [][C10_ReadStep]_vars
    /\ [](\A i \in Ids : (Exists(i) /\ Completed(i)) =>
             \E c \in Cleartexts :
                /\ verifySignatures(requestedHandles[i], c, "kms")
                /\ reconstructionResults[i].encryptedResult = asEuint32(c))

\* the owner read the result of a completed record
C10_Witness ==
    /\ ret.op = "read"
    /\ ret.status = Ok
    /\ Exists(ret.id)
    /\ ret.value # NoHandle
    /\ ret.value = reconstructionResults[ret.id].encryptedResult

(* -------------------------------- C11 ---------------------------------- *)
\* the ImageUploaded events, in emission order
UploadEvents == SelectSeq(events, LAMBDA e : e.type = "ImageUploaded")

\* C11: the n-th upload is given id n (ids are unique, increasing and dense
\* from 1, never reused), and there is one record per id: the record stored
\* under an id of 1..imageCount carries that id and is the one its upload made.
C11_IdsDenseFromOne ==
    /\ Len(UploadEvents) = imageCount
    /\ \A n \in 1 .. Len(UploadEvents) :
          /\ UploadEvents[n].id = n
          /\ encryptedImages[n].id = n
          /\ encryptedImages[n].owner = UploadEvents[n].owner
          /\ encryptedImages[n].timestamp = UploadEvents[n].timestamp
    /\ \A i \in Ids : ~Exists(i) => encryptedImages[i].id = 0

\* two uploads have been made, by different users
C11_Witness ==
    /\ imageCount = 2
    /\ Len(UploadEvents) = 2
    /\ UploadEvents[1].owner # UploadEvents[2].owner

(* -------------------------------- C12 ---------------------------------- *)
\* ids of the uploads made by user u, in upload order
RECURSIVE IdsUploadedBy(_, _)
IdsUploadedBy(u, evs) ==
    IF evs = <<>> THEN <<>>
    ELSE IF Head(evs).type = "ImageUploaded" /\ Head(evs).owner = u
         THEN <<Head(evs).id>> \o IdsUploadedBy(u, Tail(evs))
         ELSE IdsUploadedBy(u, Tail(evs))

\* C12: getUserImageIds(u) is exactly the ids u uploaded, in upload order,
\* without duplicates (empty when u uploaded nothing), and only an upload
\* changes it, by appending.
C12_OwnedListStep ==
    \A u \in Users :
       getUserImageIds(u)' # getUserImageIds(u) =>
          /\ ret'.op = "upload"
          /\ \E i \in Ids : getUserImageIds(u)' = Append(getUserImageIds(u), i)
C12_ListOwned ==
    /\ [](\A u \in Users :
            /\ getUserImageIds(u) = IdsUploadedBy(u, events)
            /\ \A j, k \in 1 .. Len(getUserImageIds(u)) :
                  j < k => getUserImageIds(u)[j] < getUserImageIds(u)[k])
    /\ [][C12_OwnedListStep]_vars

\* one user uploaded twice, the other nothing, and a request and a completion
\* went by
C12_Witness ==
    /\ \E u \in Users, v \in Users :
          /\ getUserImageIds(u) = <<1, 2>>
          /\ getUserImageIds(v) = <<>>
    /\ counterRequest > 0
    /\ Completions > 0

(* -------------------------------- C13 ---------------------------------- *)
\* C13: a call that fails (its status is not Ok) leaves the whole state as it
\* was: storage, the oracle's bookkeeping and the event log. Every handler's
\* outcome is a function of that state, so the call that was right for a
\* record before the failure is still right after it.
C13_FailureChangesNothing ==
    [][ret'.status # Ok => UNCHANGED state]_vars

\* a callback for an issued request was rejected for its proof while a record
\* and its request were in place
C13_Witness ==
    /\ ret.op = "callback"
    /\ ret.status = InvalidProof
    /\ ret.id \in Issued
    /\ ~HasResult(ret.id)
    /\ imageCount > 0

(* -------------------------------- C14 ---------------------------------- *)
\* positions in the event log of the entries of one type about id i
EventsOf(type, i) == {k \in 1 .. Len(events) : events[k].type = type /\ events[k].id = i}

\* C14: for every record the log holds exactly one ImageUploaded entry, at
\* most one ReconstructionRequested entry and at most one
\* ReconstructionCompleted entry, in that order.
C14_OneEntryPerTransition ==
    \A i \in Ids : Exists(i) =>
       /\ Cardinality(EventsOf("ImageUploaded", i)) = 1
       /\ Cardinality(EventsOf("ReconstructionRequested", i)) <= 1
       /\ Cardinality(EventsOf("ReconstructionCompleted", i)) <= 1
       /\ \A a \in EventsOf("ImageUploaded", i),
             b \in EventsOf("ReconstructionRequested", i) : a < b
       /\ \A b \in EventsOf("ReconstructionRequested", i),
             d \in EventsOf("ReconstructionCompleted", i) : b < d

(* -------------------------------- C15 ---------------------------------- *)
\* C15: the contract never receives the cleartext of an uploaded payload: the
\* cleartexts argument of an accepted callback is not the decryption of the
\* payload of any record.
C15_NoCleartextReceived ==
    [][\A c \in Cleartexts, p \in Proofs :
         (ret'.op = "callback" /\ ret'.status = Ok
            /\ processReconstruction(ret'.id, c, p)) =>
            \A i \in Ids : Exists(i) => c # Decrypt(encryptedImages[i].encryptedData)]_vars

(* -------------------------------- C16 ---------------------------------- *)
\* C16: a record is completed (isProcessed) only after a successful
\* requestReconstruction on that same record: no record is ever completed
\* without a request having been issued for it.
C16_CompletedOnlyAfterRequest ==
    \A i \in Ids : (Exists(i) /\ Completed(i)) => \E r \in Issued : reqImage[r] = i

(* -------------------------------- C17 ---------------------------------- *)
\* C17: every id whose isProcessed flag (as getImageMetadata reports it) is
\* set, or that has a stored ReconstructionResult, is the id of a record:
\* 1 <= id <= imageCount.
C17_CompletionOnlyOnRecords ==
    \A i \in Ids : (getImageMetadata(i).isProcessed \/ HasResult(i)) => Exists(i)

(* -------------------------------- C18 ---------------------------------- *)
\* owner, payload and timestamp of the records that exist stay as they are
C18_RecordFieldsKept ==
    \A i \in Ids : Exists(i) =>
       /\ encryptedImages'[i].owner = encryptedImages[i].owner
       /\ encryptedImages'[i].encryptedData = encryptedImages[i].encryptedData
       /\ encryptedImages'[i].timestamp = encryptedImages[i].timestamp
       /\ encryptedImages'[i].id = encryptedImages[i].id

\* C18: owner, payload and timestamp of a record are never changed after its
\* creation by any upload, request, callback or read, and every request
\* handed to the oracle carries exactly the payload stored in the record it
\* was made for.
C18_PayloadForwardedUnchanged ==
    /\ [][C18_RecordFieldsKept]_vars
    /\ [](\A r \in Issued :
            requestedHandles[r] = <<toBytes32(encryptedImages[reqImage[r]].encryptedData)>>)

\* two records with different payloads exist, a request for the older one was
\* issued, and a completion has happened
C18_Witness ==
    /\ imageCount = 2
    /\ encryptedImages[1].encryptedData # encryptedImages[2].encryptedData
    /\ \E r \in Issued : reqImage[r] = 1
    /\ Completions > 0

(* -------------------------------- C19 ---------------------------------- *)
\* C19: once a callback for a correlation id has been accepted, a further
\* callback with the same correlation id and a proof that verifies fails with
\* UnknownRequest and changes neither the stored results nor the event log.
C19_ReplayRejected ==
    [][\A c \in Cleartexts, p \in Proofs :
         LET r == ret'.id IN
         (ret'.op = "callback" /\ r \in Issued /\ HasResult(r)
            /\ verifySignatures(requestedHandles[r], c, p)
            /\ processReconstruction(r, c, p)) =>
            (ret'.status = UnknownRequest /\ UNCHANGED <<reconstructionResults, events>>)]_vars

(* -------------------------------- C20 ---------------------------------- *)
\* C20: once the verified callback carrying the correlation id of a request
\* has been delivered, the record the request was made for is completed, in
\* that state and in every later one, so that its owner's
\* getReconstructionResult passes the isProcessed requirement.
C20_DeliveredRequestCompletesRecord ==
    \A r \in Issued : HasResult(r) => encryptedImages[reqImage[r]].isProcessed

(* -------------------------------- C21 ---------------------------------- *)
\* C21: the value an owner reads for a record is derived from the payload of
\* that same record: a successful getReconstructionResult(id) returns the
\* encryption of the decryption of encryptedImages[id].encryptedData, never a
\* value computed from another owner's payload.
C21_ResultFromOwnPayload ==
    (ret.op = "read" /\ ret.status = Ok) =>
       ret.value = asEuint32(Decrypt(encryptedImages[ret.id].encryptedData))

(* -------------------------------- C22 ---------------------------------- *)
\* place of a status in the order uploaded -> processing -> reconstructed
StatusRank(status) ==
    CASE status = "none" -> 0
      [] status = "uploaded" -> 1
      [] status = "processing" -> 2
      [] status = "reconstructed" -> 3

\* a step in which the setData of processImage or completeReconstruction
\* is answered
C22_StatusWrite ==
    \E k \in Slots : /\ tasks[k].at \in {"process_set", "complete_set"}
                     /\ tasks'[k] # tasks[k]

\* C22: in the web client the writes of processImage and
\* completeReconstruction only move the stored status of an image forward
\* along uploaded -> processing -> reconstructed; an image stored as
\* reconstructed never returns to processing, whatever the sessions' lists.
C22_StatusOnlyForward ==
    [][C22_StatusWrite =>
          \A i \in WebIds :
             StatusRank(StoredStatus(i)') >= StatusRank(StoredStatus(i))]_allvars

(* -------------------------------- C23 ---------------------------------- *)
\* C23: in the web client every upload that reported success has its image
\* id in the list stored under "et_image_keys" from then on.
C23_NoKeyLost ==
    \A i \in succeeded : \E k \in 1 .. Len(StoredKeys) : StoredKeys[k] = i

====
